---- MODULE Spec2Model ----
(***************************************************************************)
(* A model of the msaada loan-origination client (React components over a  *)
(* Supabase backend) and of the database rules its migrations install.     *)
(*                                                                         *)
(* The backend tables are modelled as the rows the migrations allow, the   *)
(* row-level-security policies as predicates over (auth.uid(), row), and   *)
(* every component handler as one action per stretch of code between two   *)
(* awaits: a request is issued, the store applies it, the response is      *)
(* handled.  Requests in flight may be applied and answered in any order.  *)
(*                                                                         *)
(* The module holds one specification per part of the program:             *)
(*   SpecLoan      loan_applications, AdminDashboard, LoanList             *)
(*   SpecChat      ChatSupport: setupChat, history, message feed, receipts *)
(*   SpecOpenSeq   ChatSupport: setupChat, opens one after another         *)
(*   SpecMarkRead  the conditional read_at update of markMessageAsRead     *)
(*   SpecTyping    ChatSupport: typing status, inactivity timer, indicator *)
(*   SpecOpenGate  ChatSupport: setupChat of users with or without profile *)
(*   SpecSend      ChatSupport: compose form, attachment upload, insert    *)
(*   SpecFail      ChatSupport: one session whose store calls may fail     *)
(*   SpecProfile   ProfileForm: validation, profile upsert, constraints    *)
(*   SpecSave      ProfileForm against the table the migrations create     *)
(*   SpecAdmin     ChatSupport in admin mode next to an end user's chat    *)
(*   SpecClose     ChatSupport: a chat typed in and then closed            *)
(*   SpecApp       App: sign-in, sign-out, admin-status checks             *)
(*   SpecReceipt   ChatSupport: one chat, replies and read receipts        *)
(***************************************************************************)
EXTENDS Integers, Sequences, FiniteSets, TLC

VARIABLES
    \* ---- backend store ----
    profiles,       \* profiles table: user_id -> [present, full_name, is_admin] and,
                    \* once ProfileForm saved it, the other columns of the form
    apps,           \* loan_applications rows, id = position
    convs,          \* chat_conversations rows, id = position
    msgs,           \* chat_messages rows, id = position
    typing,         \* chat_typing_status rows, in insertion order
    \* ---- AdminDashboard / LoanList ----
    dashUser,       \* identity signed in where dashboard d is shown (the first an admin's)
    dashApps,       \* dashboard d's `applications` state: id -> status shown ("" = not listed)
    updReqs,        \* status updates in flight
    loans,          \* LoanList of user u: `loans` state, id -> status shown
    approvedOnce,   \* history: ids an admin's update moved from pending to approved
    \* ---- ChatSupport sessions ----
    sessUser,       \* identity signed in where session s is shown (supabase.auth.getUser())
    isAdmin,        \* the isAdmin prop of session s
    mounted,        \* whether the component of session s is mounted
    pc,             \* where session s's setupChat stands
    profile,        \* session state profile (NoProfile = null)
    loading,        \* session state loading
    subscribed,     \* whether the message channel of session s has joined
    userId,         \* session state userId (Null = unset)
    conversationId, \* session state conversationId (0 = null)
    messages,       \* session state messages: sequence of row snapshots
    fetchSt,        \* fetchMessages of session s: "none" | "sent" | "read" | "done"
    fetchData,      \* rows the store returned to the fetch in flight
    msgFeed,        \* message INSERT notifications emitted to session s
    msgSeen,        \* how many of msgFeed[s] the callback has handled
    markReqs,       \* mark-read updates in flight
    clock,          \* the wall clock read by new Date()
    markRepeats,    \* history: per message, the updates processed after read_at was set
    \* ---- ChatSupport typing ----
    newMessage,     \* session state newMessage: the characters of the compose input
    focused,        \* whether the compose input of session s has the focus
    timeoutRef,     \* typingTimeoutRef.current: a timer id, 0 = undefined
    timers,         \* timers of session s that are armed and have neither fired nor been cleared
    nextTimer,      \* ids handed out by setTimeout
    upserts,        \* typing upserts in flight
    nextUpsert,     \* typing upserts issued so far (request ids)
    lastIssued,     \* flag of the upsert session s issued most recently ("none" before the first)
    typingStatus,   \* session state typingStatus: sequence of [user_id, is_typing]
    typFeed,        \* typing-status change notifications emitted to session s
    typSeen,        \* how many of typFeed[s] the callback has handled
    \* ---- ChatSupport compose form ----
    selectedFile,   \* session state selectedFile (NoFile = null)
    sends,          \* handleSubmit calls that stand at an await
    nextSend,       \* submit events so far, plus one
    objects,        \* storage bucket 'profile-documents': the uploaded objects
    nextPath,       \* file names drawn by uploadFile so far, plus one
    toasts,         \* error notifications shown where session s is shown
    \* ---- ProfileForm (of end user u1) ----
    form,           \* component state profile: the values of the inputs
    formLoading,    \* component state loading
    formSuccess,    \* component state success
    formErrors,     \* component state errors: the fields with a message
    saves,          \* handleSubmit calls that stand at the upsert
    formToasts,     \* notifications of the form, oldest first
    \* ---- App ----
    session,        \* the session the auth client holds: its user, Null = none
    user,           \* component state user (Null = null)
    adminState,     \* component state adminState: [isAdmin, profile], profile the
                    \* owner of the row held (Null = null)
    checks,         \* checkAdminStatus calls that stand at the profile query
    nextCheck,      \* checkAdminStatus calls so far, plus one
    signingOut      \* whether handleSignOut stands at its await

storeVars  == <<profiles, apps, convs, msgs, typing>>
loanVars   == <<dashUser, dashApps, updReqs, loans, approvedOnce>>
chatVars   == <<sessUser, isAdmin, mounted, pc, profile, loading, subscribed,
                userId, conversationId, messages, fetchSt, fetchData,
                msgFeed, msgSeen, markReqs, clock, markRepeats>>
typingVars == <<newMessage, focused, timeoutRef, timers, nextTimer, upserts, nextUpsert,
                lastIssued, typingStatus, typFeed, typSeen>>
sendVars   == <<selectedFile, sends, nextSend, objects, nextPath, toasts>>
formVars   == <<form, formLoading, formSuccess, formErrors, saves, formToasts>>
appVars    == <<session, user, adminState, checks, nextCheck, signingOut>>
vars == <<storeVars, loanVars, chatVars, typingVars, sendVars, formVars, appVars>>

----------------------------------------------------------------------------
(* Identities and bounds *)

Null == "null"

\* no file is staged
NoFile == [name |-> "", size |-> 0, type |-> ""]

EndUsers == {"u1", "u2"}
AdminUsers == {"a1"}
Users == EndUsers \cup AdminUsers

MaxApps == 2        \* loan applications ever created
MaxDash == 2        \* admin dashboards open at once
MaxReqs == 2        \* status updates in flight at once

Dash == 1..MaxDash

\* The profiles table as the migrations leave it: one admin row, is_admin
\* false by default for everyone else.
SeedProfiles ==
    [u \in Users |-> [present |-> TRUE, full_name |-> <<"J", "o">>, is_admin |-> (u \in AdminUsers)]]

\* .single() on a profile query that matches no row: data is null
NoProfile == [present |-> FALSE, full_name |-> <<>>, is_admin |-> FALSE]

\* is_admin(): EXISTS (SELECT 1 FROM profiles WHERE user_id = auth.uid() AND is_admin)
is_admin(uid) == profiles[uid].present /\ profiles[uid].is_admin

----------------------------------------------------------------------------
(* loan_applications: row-level security *)

\* SELECT: "Users can view own loan applications" OR "Admins can view all loan applications"
LoanSelectPolicy(uid, row) == uid = row.user_id \/ is_admin(uid)

\* UPDATE: "Admins can update loan status" is the only UPDATE policy
LoanUpdatePolicy(uid, row) == is_admin(uid)

\* The rows a select by uid returns, as id -> status ("" where the row is hidden)
VisibleApps(uid) ==
    [id \in 1..MaxApps |->
        IF id \in DOMAIN apps /\ LoanSelectPolicy(uid, apps[id]) THEN apps[id].status ELSE ""]

\* .from('loan_applications').update({ status }).eq('id', id): every row with that
\* id the UPDATE policy lets uid see gets the new status; the others are untouched
\* and no error is reported.
ApplyStatusUpdate(rows, uid, id, status) ==
    [i \in DOMAIN rows |->
        IF i = id /\ LoanUpdatePolicy(uid, rows[i])
        THEN [rows[i] EXCEPT !.status = status]
        ELSE rows[i]]

NoApps == [id \in 1..MaxApps |-> ""]

\* LoanApplicationForm.handleSubmit: insert with user_id = user.id, status 'pending'
SubmitLoan(u) ==
    /\ Len(apps) < MaxApps
    /\ profiles[u].present /\ profiles[u].full_name # <<>>
    /\ apps' = Append(apps, [user_id |-> u, status |-> "pending"])
    /\ UNCHANGED <<appVars, formVars, sendVars, profiles, convs, msgs, typing, loanVars, chatVars, typingVars>>

\* AdminDashboard.fetchAllApplications: select, then setApplications(data)
FetchAllApplications(d) ==
    /\ dashApps' = [dashApps EXCEPT ![d] = VisibleApps(dashUser[d])]
    /\ UNCHANGED <<appVars, formVars, sendVars, storeVars, dashUser, updReqs, loans, approvedOnce, chatVars, typingVars>>

\* AdminDashboard: the approve / reject buttons are rendered for the rows the
\* local list shows as pending; a click calls updateApplicationStatus(id, status),
\* which sends the update.
ClickStatus(d, id, status) ==
    /\ dashApps[d][id] = "pending"
    /\ Cardinality(updReqs) < MaxReqs
    /\ ~ \E r \in updReqs : r.d = d /\ r.id = id /\ r.status = status
    /\ updReqs' = updReqs \cup {[d |-> d, id |-> id, status |-> status, stage |-> "sent"]}
    /\ UNCHANGED <<appVars, formVars, sendVars, storeVars, dashUser, dashApps, loans, approvedOnce, chatVars, typingVars>>

\* the store applies the update under the caller's identity
StatusUpdateApply(r) ==
    /\ r \in updReqs /\ r.stage = "sent"
    /\ apps' = ApplyStatusUpdate(apps, dashUser[r.d], r.id, r.status)
    /\ updReqs' = (updReqs \ {r}) \cup {[r EXCEPT !.stage = "applied"]}
    /\ approvedOnce' =
          IF r.id \in DOMAIN apps /\ apps[r.id].status = "pending"
             /\ apps'[r.id].status = "approved"
          THEN approvedOnce \cup {r.id} ELSE approvedOnce
    /\ UNCHANGED <<appVars, formVars, sendVars, profiles, convs, msgs, typing, dashUser, dashApps, loans,
                   chatVars, typingVars>>

\* updateApplicationStatus resumes: no error (an update of zero rows is none),
\* so it awaits fetchAllApplications()
StatusUpdateDone(r) ==
    /\ r \in updReqs /\ r.stage = "applied"
    /\ updReqs' = updReqs \ {r}
    /\ dashApps' = [dashApps EXCEPT ![r.d] = VisibleApps(dashUser[r.d])]
    /\ UNCHANGED <<appVars, formVars, sendVars, storeVars, dashUser, loans, approvedOnce, chatVars, typingVars>>

\* LoanList.fetchLoans: select('*').eq('user_id', user.id), then setLoans(data).
\* App shows LoanApplicationForm and LoanList to the users it does not treat as admins.
FetchLoans(u) ==
    /\ loans' = [loans EXCEPT ![u] =
                    [id \in 1..MaxApps |->
                        IF id \in DOMAIN apps /\ apps[id].user_id = u
                           /\ LoanSelectPolicy(u, apps[id])
                        THEN apps[id].status ELSE ""]]
    /\ UNCHANGED <<appVars, formVars, sendVars, storeVars, dashUser, dashApps, updReqs, approvedOnce, chatVars, typingVars>>

----------------------------------------------------------------------------
(* chat tables: rows and row-level security *)

MaxSessions == 2    \* ChatSupport components (browser tabs) at once
MaxConvs == 3       \* chat_conversations rows ever created
MaxMsgs == 2        \* chat_messages rows ever created
MaxClock == 2       \* readings of the clock by markMessageAsRead

Sessions == 1..MaxSessions

\* chat_conversations SELECT: "Users can view their own conversations"
ConvSelectPolicy(uid, row) == row.user_id = uid \/ is_admin(uid)

\* chat_conversations INSERT: "Users can create conversations"
ConvInsertPolicy(uid, row) == row.user_id = uid

\* chat_messages SELECT: "Users can view messages in their conversations"
MsgSelectPolicy(uid, row) ==
    \/ row.user_id = uid
    \/ is_admin(uid)
    \/ \E c \in DOMAIN convs : c = row.conversation_id /\ convs[c].user_id = uid

\* chat_messages INSERT: "Users can create messages"
MsgInsertPolicy(uid, row) ==
    /\ row.user_id = uid
    /\ \/ \E c \in DOMAIN convs : c = row.conversation_id /\ convs[c].user_id = uid
       \/ is_admin(uid)

\* The commands of the policies the migrations create on chat_messages.  Row
\* level security is enabled on the table, so a command without a policy is
\* denied for every row.
MsgPolicyCommands == {"SELECT", "INSERT"}

\* chat_messages UPDATE: no policy is created for it
MsgUpdatePolicy(uid, row) == "UPDATE" \in MsgPolicyCommands

\* a lookup that filters on a status no conversation carries: it finds nothing
ClosedConvs(uid) ==
    {c \in DOMAIN convs : /\ convs[c].user_id = uid
                          /\ convs[c].status = "closed"
                          /\ ConvSelectPolicy(uid, convs[c])}

\* .select('id').eq('user_id', uid).eq('status', 'active'): the matching ids
ActiveConvs(uid) ==
    {c \in DOMAIN convs : /\ convs[c].user_id = uid
                          /\ convs[c].status = "active"
                          /\ ConvSelectPolicy(uid, convs[c])}

\* .single(): the row when exactly one matches, otherwise an error and data null (0)
Single(ids) == IF Cardinality(ids) = 1 THEN CHOOSE c \in ids : TRUE ELSE 0

\* .from('chat_messages').select('*').eq('conversation_id', c).order('created_at'):
\* the rows from position i on of conversation c that uid may see, oldest first
RECURSIVE MessagesFrom(_, _, _)
MessagesFrom(uid, c, i) ==
    IF i > Len(msgs) THEN <<>>
    ELSE IF msgs[i].conversation_id = c /\ MsgSelectPolicy(uid, msgs[i])
         THEN <<[id |-> i, user_id |-> msgs[i].user_id, read_at |-> msgs[i].read_at]>>
              \o MessagesFrom(uid, c, i + 1)
         ELSE MessagesFrom(uid, c, i + 1)

ConvMessages(uid, c) == MessagesFrom(uid, c, 1)

\* an update without the .is('read_at', null) filter: it overwrites
OverwriteRead(rows, m, now, allowed) ==
    [i \in DOMAIN rows |->
        IF i = m /\ allowed THEN [rows[i] EXCEPT !.read_at = now] ELSE rows[i]]

\* .update({ read_at: now }).eq('id', m).is('read_at', null), with `allowed`
\* the outcome of the UPDATE policy for the row: read_at 0 is null
ApplyMarkRead(rows, m, now, allowed) ==
    [i \in DOMAIN rows |->
        IF i = m /\ allowed /\ rows[i].read_at = 0
        THEN [rows[i] EXCEPT !.read_at = now]
        ELSE rows[i]]

\* The sessions a change of a row of conversation c is announced to: realtime
\* delivers to the channels that have joined with the filter conversation_id=eq.c
Listeners(c) == {s \in Sessions : mounted[s] /\ subscribed[s] /\ conversationId[s] = c}

----------------------------------------------------------------------------
(* ChatSupport: setupChat *)

\* The component is mounted: fresh state, and the first effect calls setupChat().
\* isAdmin is true only inside AdminDashboard, which App shows to admin profiles.
Mount(s, u, adm) ==
    /\ ~mounted[s]
    /\ pc[s] \in {"closed", "ready"}
    /\ fetchSt[s] \in {"none", "done"}
    /\ adm => is_admin(u)
    /\ mounted' = [mounted EXCEPT ![s] = TRUE]
    /\ sessUser' = [sessUser EXCEPT ![s] = u]
    /\ isAdmin' = [isAdmin EXCEPT ![s] = adm]
    /\ pc' = [pc EXCEPT ![s] = "getUser"]
    /\ userId' = [userId EXCEPT ![s] = Null]
    /\ profile' = [profile EXCEPT ![s] = NoProfile]
    /\ loading' = [loading EXCEPT ![s] = TRUE]
    /\ conversationId' = [conversationId EXCEPT ![s] = 0]
    /\ messages' = [messages EXCEPT ![s] = <<>>]
    /\ subscribed' = [subscribed EXCEPT ![s] = FALSE]
    /\ fetchSt' = [fetchSt EXCEPT ![s] = "none"]
    /\ fetchData' = [fetchData EXCEPT ![s] = <<>>]
    /\ msgFeed' = [msgFeed EXCEPT ![s] = <<>>]
    /\ msgSeen' = [msgSeen EXCEPT ![s] = 0]
    /\ newMessage' = [newMessage EXCEPT ![s] = <<>>]
    /\ selectedFile' = [selectedFile EXCEPT ![s] = NoFile]
    /\ focused' = [focused EXCEPT ![s] = FALSE]
    /\ timeoutRef' = [timeoutRef EXCEPT ![s] = 0]
    /\ typingStatus' = [typingStatus EXCEPT ![s] = <<>>]
    /\ typFeed' = [typFeed EXCEPT ![s] = <<>>]
    /\ typSeen' = [typSeen EXCEPT ![s] = 0]
    /\ UNCHANGED <<appVars, formVars, sends, nextSend, objects, nextPath, toasts, storeVars, loanVars,
                   markReqs, clock, markRepeats, timers, nextTimer,
                   upserts, nextUpsert, lastIssued>>

\* getUser() resolves: setUserId(user.id), then the profile query is sent
GetUserDone(s) ==
    /\ pc[s] = "getUser"
    /\ userId' = [userId EXCEPT ![s] = sessUser[s]]
    /\ pc' = [pc EXCEPT ![s] = "profile"]
    /\ UNCHANGED <<appVars, formVars, sendVars, storeVars, loanVars, sessUser, isAdmin, mounted, profile, loading,
                   subscribed, conversationId, messages, fetchSt, fetchData, msgFeed,
                   msgSeen, markReqs, clock, markRepeats, typingVars>>

\* the profile query resolves: setProfile(profileData); an end-user session sends
\* the conversation lookup, an admin session is done (setLoading(false))
ProfileDone(s) ==
    /\ pc[s] = "profile"
    /\ profile' = [profile EXCEPT ![s] =
                      IF profiles[sessUser[s]].present THEN profiles[sessUser[s]] ELSE NoProfile]
    /\ pc' = [pc EXCEPT ![s] = IF isAdmin[s] THEN "ready" ELSE "lookup"]
    /\ loading' = [loading EXCEPT ![s] = IF isAdmin[s] THEN FALSE ELSE loading[s]]
    /\ UNCHANGED <<appVars, formVars, sendVars, storeVars, loanVars, sessUser, isAdmin, mounted, subscribed, userId,
                   conversationId, messages, fetchSt, fetchData, msgFeed, msgSeen,
                   markReqs, clock, markRepeats, typingVars>>

\* The effect on conversationId: once the state holds a conversation id and the
\* component is still mounted, fetchMessages() is called and the channels are
\* created; the channel joins later (ChannelJoined).
StartFetch(s, c) == IF mounted[s] /\ c # 0 THEN "sent" ELSE fetchSt[s]

\* the lookup resolves: an existing conversation is adopted, otherwise the insert is sent
LookupDone(s) ==
    /\ pc[s] = "lookup"
    /\ LET existingConv == Single(ActiveConvs(sessUser[s])) IN
        IF existingConv # 0
        THEN /\ conversationId' = [conversationId EXCEPT ![s] = existingConv]
             /\ fetchSt' = [fetchSt EXCEPT ![s] = StartFetch(s, existingConv)]
             /\ pc' = [pc EXCEPT ![s] = "ready"]
             /\ loading' = [loading EXCEPT ![s] = FALSE]
        ELSE /\ pc' = [pc EXCEPT ![s] = "create"]
             /\ UNCHANGED <<conversationId, fetchSt, loading>>
    /\ UNCHANGED <<appVars, formVars, sendVars, storeVars, loanVars, sessUser, isAdmin, mounted, profile, subscribed,
                   userId, messages, fetchData, msgFeed, msgSeen, markReqs, clock,
                   markRepeats, typingVars>>

\* .insert({ user_id }).select().single(): the store adds an active conversation
\* and returns it: setConversationId(newConv.id), setLoading(false)
CreateDone(s) ==
    /\ pc[s] = "create"
    /\ Len(convs) < MaxConvs
    /\ ConvInsertPolicy(sessUser[s], [user_id |-> sessUser[s]])
    /\ convs' = Append(convs, [user_id |-> sessUser[s], status |-> "active"])
    /\ conversationId' = [conversationId EXCEPT ![s] = Len(convs) + 1]
    /\ fetchSt' = [fetchSt EXCEPT ![s] = StartFetch(s, Len(convs) + 1)]
    /\ pc' = [pc EXCEPT ![s] = "ready"]
    /\ loading' = [loading EXCEPT ![s] = FALSE]
    /\ UNCHANGED <<appVars, formVars, sendVars, profiles, apps, msgs, typing, loanVars, sessUser, isAdmin, mounted,
                   profile, subscribed, userId, messages, fetchData, msgFeed, msgSeen,
                   markReqs, clock, markRepeats, typingVars>>

\* .subscribe() of the message channel completes
ChannelJoined(s) ==
    /\ mounted[s] /\ conversationId[s] # 0 /\ ~subscribed[s]
    /\ subscribed' = [subscribed EXCEPT ![s] = TRUE]
    /\ UNCHANGED <<appVars, formVars, sendVars, storeVars, loanVars, sessUser, isAdmin, mounted, pc, profile, loading,
                   userId, conversationId, messages, fetchSt, fetchData, msgFeed,
                   msgSeen, markReqs, clock, markRepeats, typingVars>>

\* The component is unmounted: the effect's cleanup unsubscribes both channels,
\* so the notifications not yet handled are dropped, and the message list goes
\* with the component.  An unfinished setupChat, fetch or update keeps running.
Unmount(s) ==
    /\ mounted[s]
    /\ mounted' = [mounted EXCEPT ![s] = FALSE]
    /\ subscribed' = [subscribed EXCEPT ![s] = FALSE]
    /\ messages' = [messages EXCEPT ![s] = <<>>]
    /\ msgFeed' = [msgFeed EXCEPT ![s] = <<>>]
    /\ msgSeen' = [msgSeen EXCEPT ![s] = 0]
    /\ UNCHANGED <<appVars, formVars, sendVars, storeVars, loanVars, sessUser, isAdmin, pc, profile, loading,
                   userId, conversationId, fetchSt, fetchData,
                   markReqs, clock, markRepeats, typingVars>>

----------------------------------------------------------------------------
(* ChatSupport: messages and read receipts *)

\* The compose form is rendered once loading is over, unless the session is an
\* end user's and its profile has no full_name (the "Complete Your Profile" card).
FormShown(s) ==
    /\ mounted[s] /\ ~loading[s]
    /\ isAdmin[s] \/ profile[s].full_name # <<>>

\* The store accepts an insert into chat_messages and announces it to the
\* channels that have joined for the row's conversation.
InsertMessage(row) ==
    /\ Len(msgs) < MaxMsgs
    /\ msgs' = Append(msgs, row)
    /\ msgFeed' = [s \in Sessions |->
                      IF s \in Listeners(row.conversation_id)
                         /\ MsgSelectPolicy(sessUser[s], row)
                      THEN Append(msgFeed[s], Len(msgs) + 1)
                      ELSE msgFeed[s]]

\* handleSubmit's insert for a text draft: conversation_id: conversationId,
\* user_id: userId, is_support: isAdmin.  conversation_id is NOT NULL, so the
\* insert of a session without a conversation is refused.
SessionInsert(s) ==
    /\ FormShown(s)
    /\ userId[s] # Null
    /\ conversationId[s] # 0
    /\ LET row == [conversation_id |-> conversationId[s], user_id |-> userId[s],
                   is_support |-> isAdmin[s], read_at |-> 0]
       IN  MsgInsertPolicy(sessUser[s], row) /\ InsertMessage(row)
    /\ UNCHANGED <<appVars, formVars, sendVars, profiles, apps, convs, typing, loanVars, sessUser, isAdmin, mounted,
                   pc, profile, loading, subscribed, userId, conversationId, messages,
                   fetchSt, fetchData, msgSeen, markReqs, clock, markRepeats, typingVars>>

\* A reply by support staff.  ChatSupport never resolves a conversation in admin
\* mode, so replies reach the table from outside this client, as the INSERT
\* policy allows an admin identity for any conversation.
SupportReply(a, c) ==
    /\ is_admin(a)
    /\ c \in DOMAIN convs
    /\ LET row == [conversation_id |-> c, user_id |-> a, is_support |-> TRUE, read_at |-> 0]
       IN  MsgInsertPolicy(a, row) /\ InsertMessage(row)
    /\ UNCHANGED <<appVars, formVars, sendVars, profiles, apps, convs, typing, loanVars, sessUser, isAdmin, mounted,
                   pc, profile, loading, subscribed, userId, conversationId, messages,
                   fetchSt, fetchData, msgSeen, markReqs, clock, markRepeats, typingVars>>

\* markMessageAsRead(m) called by session s: the update is sent, stamped with
\* the session's reading of the clock
MarkRequest(s, m, via) ==
    [uid |-> sessUser[s], m |-> m, at |-> clock, via |-> via]

\* The message-insert callback of session s handles the next notification:
\* setMessages(current => [...current, payload.new]); markMessageAsRead(payload.new.id)
OnMessageInsert(s) ==
    /\ mounted[s] /\ subscribed[s]
    /\ msgSeen[s] < Len(msgFeed[s])
    /\ clock <= MaxClock
    /\ LET m == msgFeed[s][msgSeen[s] + 1] IN
        /\ messages' = [messages EXCEPT ![s] =
                           Append(@, [id |-> m, user_id |-> msgs[m].user_id, read_at |-> 0])]
        /\ markReqs' = markReqs \cup {MarkRequest(s, m, "feed")}
    /\ msgSeen' = [msgSeen EXCEPT ![s] = @ + 1]
    /\ clock' = clock + 1
    /\ UNCHANGED <<appVars, formVars, sendVars, storeVars, loanVars, sessUser, isAdmin, mounted, pc, profile, loading,
                   subscribed, userId, conversationId, fetchSt, fetchData, msgFeed,
                   markRepeats, typingVars>>

\* fetchMessages: the store answers the select
FetchRead(s) ==
    /\ fetchSt[s] = "sent"
    /\ fetchSt' = [fetchSt EXCEPT ![s] = "read"]
    /\ fetchData' = [fetchData EXCEPT ![s] = ConvMessages(sessUser[s], conversationId[s])]
    /\ UNCHANGED <<appVars, formVars, sendVars, storeVars, loanVars, sessUser, isAdmin, mounted, pc, profile, loading,
                   subscribed, userId, conversationId, messages, msgFeed, msgSeen,
                   markReqs, clock, markRepeats, typingVars>>

\* The rows of a fetch that fetchMessages marks read: !message.read_at && message.user_id !== userId
FetchMarks(s, data) ==
    {data[i].id : i \in {j \in DOMAIN data : data[j].read_at = 0 /\ data[j].user_id # userId[s]}}

\* fetchMessages resumes: setMessages(data), then markMessageAsRead for every
\* unread message of another sender
FetchDone(s) ==
    /\ fetchSt[s] = "read"
    /\ clock <= MaxClock
    /\ fetchSt' = [fetchSt EXCEPT ![s] = "done"]
    /\ messages' = [messages EXCEPT ![s] = IF mounted[s] THEN fetchData[s] ELSE @]
    /\ markReqs' = markReqs \cup {MarkRequest(s, m, "fetch") : m \in FetchMarks(s, fetchData[s])}
    /\ clock' = IF FetchMarks(s, fetchData[s]) = {} THEN clock ELSE clock + 1
    /\ fetchData' = [fetchData EXCEPT ![s] = <<>>]
    /\ UNCHANGED <<appVars, formVars, sendVars, storeVars, loanVars, sessUser, isAdmin, mounted, pc, profile, loading,
                   subscribed, userId, conversationId, msgFeed, msgSeen, markRepeats,
                   typingVars>>

\* the store processes a mark-read update; nothing is done with the answer
MarkReadProcess(r, allowed) ==
    /\ r \in markReqs
    /\ msgs' = ApplyMarkRead(msgs, r.m, r.at, allowed)
    /\ markReqs' = markReqs \ {r}
    /\ markRepeats' = [markRepeats EXCEPT ![r.m] = IF msgs[r.m].read_at # 0 THEN @ + 1 ELSE @]
    /\ UNCHANGED <<appVars, formVars, sendVars, profiles, apps, convs, typing, loanVars, sessUser, isAdmin, mounted,
                   pc, profile, loading, subscribed, userId, conversationId, messages,
                   fetchSt, fetchData, msgFeed, msgSeen, clock, typingVars>>

\* ... under the caller's identity and the policies of the migrations
MarkReadApply(r) == MarkReadProcess(r, MsgUpdatePolicy(r.uid, msgs[r.m]))

----------------------------------------------------------------------------
(* chat_typing_status: rows, row-level security, upserts *)

MaxUpserts == 4     \* typing upserts a session issues
MaxFeed == 3        \* typing notifications emitted to one session

\* "Users can update their typing status", FOR ALL: it is the SELECT policy too
TypingPolicy(uid, row) == row.user_id = uid \/ is_admin(uid)

RowsOf(rows, c, u) ==
    {i \in DOMAIN rows : rows[i].conversation_id = c /\ rows[i].user_id = u}

\* .from('chat_typing_status').upsert({ conversation_id, user_id, is_typing,
\* last_updated }) names no onConflict, so the conflict target is the primary key
\* id, which the payload leaves to its default gen_random_uuid(): the statement
\* is an insert.  UNIQUE(conversation_id, user_id) refuses it when the pair has a
\* row (the answer carries the error, the rows stay as they are).
ClientUpsertAccepted(rows, c, u) == RowsOf(rows, c, u) = {}

ClientUpsert(rows, c, u, flag) ==
    IF ClientUpsertAccepted(rows, c, u)
    THEN Append(rows, [conversation_id |-> c, user_id |-> u, is_typing |-> flag])
    ELSE rows

\* INSERT ... ON CONFLICT (conversation_id, user_id) DO UPDATE SET is_typing
MergeUpsert(rows, c, u, flag) ==
    IF RowsOf(rows, c, u) = {}
    THEN Append(rows, [conversation_id |-> c, user_id |-> u, is_typing |-> flag])
    ELSE [i \in DOMAIN rows |->
             IF i \in RowsOf(rows, c, u) THEN [rows[i] EXCEPT !.is_typing = flag] ELSE rows[i]]

\* The typing channel of a session: event '*' filtered by conversation_id; realtime
\* sends a change only to subscribers whose SELECT policy admits the row.
EmitTyping(c, u, flag) ==
    [s \in Sessions |->
        IF s \in Listeners(c)
           /\ TypingPolicy(sessUser[s], [conversation_id |-> c, user_id |-> u])
        THEN Append(typFeed[s], [user_id |-> u, is_typing |-> flag])
        ELSE typFeed[s]]

FeedRoom(c) == \A s \in Listeners(c) : Len(typFeed[s]) < MaxFeed

----------------------------------------------------------------------------
(* ChatSupport: typing status *)

\* updateTypingStatus(isTyping) up to its await, called with `armed` the timers
\* of the session that are pending at the call: return without a conversation
\* or user; clearTimeout(typingTimeoutRef.current); send the upsert.
UpdateTypingStatus(s, isTyping, armed) ==
    IF conversationId[s] = 0 \/ userId[s] = Null
    THEN /\ timers' = [timers EXCEPT ![s] = armed]
         /\ UNCHANGED <<upserts, nextUpsert, lastIssued>>
    ELSE /\ timers' = [timers EXCEPT ![s] = armed \ {timeoutRef[s]}]
         /\ upserts' = upserts \cup
                {[id |-> nextUpsert, s |-> s, uid |-> userId[s], conv |-> conversationId[s],
                  flag |-> isTyping, stage |-> "sent"]}
         /\ nextUpsert' = nextUpsert + 1
         /\ lastIssued' = [lastIssued EXCEPT ![s] = IF isTyping THEN "true" ELSE "false"]

\* the compose input receives the focus
Focus(s) ==
    /\ FormShown(s) /\ ~focused[s]
    /\ focused' = [focused EXCEPT ![s] = TRUE]
    /\ UNCHANGED <<appVars, formVars, sendVars, storeVars, loanVars, chatVars, newMessage, timeoutRef, timers, nextTimer,
                   upserts, nextUpsert, lastIssued, typingStatus, typFeed, typSeen>>

\* onChange with a non-empty value v: setNewMessage(v); updateTypingStatus(v.length > 0)
KeyStroke(s, v) ==
    /\ FormShown(s) /\ focused[s]
    /\ nextUpsert <= MaxUpserts
    /\ Len(v) > 0
    /\ newMessage' = [newMessage EXCEPT ![s] = v]
    /\ UpdateTypingStatus(s, TRUE, timers[s])
    /\ UNCHANGED <<appVars, formVars, sendVars, storeVars, loanVars, chatVars, focused, timeoutRef, nextTimer,
                   typingStatus, typFeed, typSeen>>

\* onChange with the empty value: setNewMessage(''); updateTypingStatus(false)
ClearInput(s) ==
    /\ FormShown(s) /\ focused[s]
    /\ newMessage[s] # <<>>
    /\ nextUpsert <= MaxUpserts
    /\ newMessage' = [newMessage EXCEPT ![s] = <<>>]
    /\ UpdateTypingStatus(s, FALSE, timers[s])
    /\ UNCHANGED <<appVars, formVars, sendVars, storeVars, loanVars, chatVars, focused, timeoutRef, nextTimer,
                   typingStatus, typFeed, typSeen>>

\* onBlur: updateTypingStatus(false)
Blur(s) ==
    /\ FormShown(s) /\ focused[s]
    /\ nextUpsert <= MaxUpserts
    /\ focused' = [focused EXCEPT ![s] = FALSE]
    /\ UpdateTypingStatus(s, FALSE, timers[s])
    /\ UNCHANGED <<appVars, formVars, sendVars, storeVars, loanVars, chatVars, newMessage, timeoutRef, nextTimer,
                   typingStatus, typFeed, typSeen>>

\* a timer armed by setTimeout(..., 3000) expires: updateTypingStatus(false)
TimerFire(s, t) ==
    /\ t \in timers[s]
    /\ nextUpsert <= MaxUpserts
    /\ UpdateTypingStatus(s, FALSE, timers[s] \ {t})
    /\ UNCHANGED <<appVars, formVars, sendVars, storeVars, loanVars, chatVars, newMessage, focused, timeoutRef, nextTimer,
                   typingStatus, typFeed, typSeen>>

\* the store processes a typing upsert of the client and announces the change
UpsertApply(q) ==
    /\ q \in upserts /\ q.stage = "sent"
    /\ TypingPolicy(q.uid, [conversation_id |-> q.conv, user_id |-> q.uid])
    /\ typing' = ClientUpsert(typing, q.conv, q.uid, q.flag)
    /\ typFeed' = IF typing' # typing THEN EmitTyping(q.conv, q.uid, q.flag) ELSE typFeed
    /\ upserts' = (upserts \ {q}) \cup {[q EXCEPT !.stage = "applied"]}
    /\ UNCHANGED <<appVars, formVars, sendVars, profiles, apps, convs, msgs, loanVars, chatVars, newMessage, focused,
                   timeoutRef, timers, nextTimer, nextUpsert, lastIssued, typingStatus,
                   typSeen>>

\* updateTypingStatus resumes after the await (the answer, error or not, is not
\* looked at): if (isTyping) typingTimeoutRef.current = setTimeout(...)
UpsertDone(q) ==
    /\ q \in upserts /\ q.stage = "applied"
    /\ upserts' = upserts \ {q}
    /\ IF q.flag
       THEN /\ timeoutRef' = [timeoutRef EXCEPT ![q.s] = nextTimer]
            /\ timers' = [timers EXCEPT ![q.s] = @ \cup {nextTimer}]
            /\ nextTimer' = nextTimer + 1
       ELSE UNCHANGED <<timeoutRef, timers, nextTimer>>
    /\ UNCHANGED <<appVars, formVars, sendVars, storeVars, loanVars, chatVars, newMessage, focused, nextUpsert,
                   lastIssued, typingStatus, typFeed, typSeen>>

\* update_typing_status_trigger, AFTER INSERT ON chat_messages: the sender's row
\* is upserted with NEW.is_typing, the column's default false.  (The message
\* row itself is the subject of SpecChat.)
MessageTrigger(c, u) ==
    /\ c \in DOMAIN convs
    /\ MsgInsertPolicy(u, [conversation_id |-> c, user_id |-> u])
    /\ FeedRoom(c)
    /\ typing' = MergeUpsert(typing, c, u, FALSE)
    /\ typFeed' = EmitTyping(c, u, FALSE)
    /\ UNCHANGED <<appVars, formVars, sendVars, profiles, apps, convs, msgs, loanVars, chatVars, newMessage, focused,
                   timeoutRef, timers, nextTimer, upserts, nextUpsert, lastIssued,
                   typingStatus, typSeen>>

\* Support staff typing in conversation c.  ChatSupport never resolves a
\* conversation in admin mode, so their rows reach the table from outside this
\* client, as the policy allows an admin identity for its own row.
SupportTyping(a, c, flag) ==
    /\ is_admin(a)
    /\ c \in DOMAIN convs
    /\ TypingPolicy(a, [conversation_id |-> c, user_id |-> a])
    /\ FeedRoom(c)
    /\ typing' = MergeUpsert(typing, c, a, flag)
    /\ typing' # typing
    /\ typFeed' = EmitTyping(c, a, flag)
    /\ UNCHANGED <<appVars, formVars, sendVars, profiles, apps, convs, msgs, loanVars, chatVars, newMessage, focused,
                   timeoutRef, timers, nextTimer, upserts, nextUpsert, lastIssued,
                   typingStatus, typSeen>>

\* current.filter(status => status.user_id !== payload.new.user_id)
RECURSIVE FilterOut(_, _)
FilterOut(list, u) ==
    IF list = <<>> THEN <<>>
    ELSE IF Head(list).user_id # u
         THEN <<Head(list)>> \o FilterOut(Tail(list), u)
         ELSE FilterOut(Tail(list), u)

\* The typing callback of session s handles the next notification:
\* setTypingStatus(current => [...filtered, payload.new])
OnTypingChange(s) ==
    /\ mounted[s] /\ subscribed[s]
    /\ typSeen[s] < Len(typFeed[s])
    /\ LET new == typFeed[s][typSeen[s] + 1] IN
        typingStatus' = [typingStatus EXCEPT ![s] = Append(FilterOut(@, new.user_id), new)]
    /\ typSeen' = [typSeen EXCEPT ![s] = @ + 1]
    /\ UNCHANGED <<appVars, formVars, sendVars, storeVars, loanVars, chatVars, newMessage, focused, timeoutRef, timers,
                   nextTimer, upserts, nextUpsert, lastIssued, typFeed>>

\* typingStatus.some(status => status.is_typing && status.user_id !== userId)
Indicator(s) ==
    \E i \in DOMAIN typingStatus[s] :
        typingStatus[s][i].is_typing /\ typingStatus[s][i].user_id # userId[s]

----------------------------------------------------------------------------
(* Initial states *)

StoreInit ==
    /\ profiles = SeedProfiles
    /\ apps = <<>>
    /\ convs = <<>>
    /\ msgs = <<>>
    /\ typing = <<>>

\* no dashboard has fetched anything
LoanIdle ==
    /\ dashApps = [d \in Dash |-> NoApps]
    /\ updReqs = {}
    /\ loans = [u \in EndUsers |-> NoApps]
    /\ approvedOnce = {}

\* no ChatSupport component is mounted
ChatIdle ==
    /\ sessUser = [s \in Sessions |-> "u1"]
    /\ isAdmin = [s \in Sessions |-> FALSE]
    /\ mounted = [s \in Sessions |-> FALSE]
    /\ pc = [s \in Sessions |-> "closed"]
    /\ profile = [s \in Sessions |-> NoProfile]
    /\ loading = [s \in Sessions |-> TRUE]
    /\ subscribed = [s \in Sessions |-> FALSE]
    /\ userId = [s \in Sessions |-> Null]
    /\ conversationId = [s \in Sessions |-> 0]
    /\ messages = [s \in Sessions |-> <<>>]
    /\ fetchSt = [s \in Sessions |-> "none"]
    /\ fetchData = [s \in Sessions |-> <<>>]
    /\ msgFeed = [s \in Sessions |-> <<>>]
    /\ msgSeen = [s \in Sessions |-> 0]
    /\ markReqs = {}
    /\ clock = 1
    /\ markRepeats = [m \in 1..MaxMsgs |-> 0]

\* the ProfileForm as mounted: empty inputs, employment_status 'employed',
\* monthly_income 0
EmptyForm ==
    [full_name |-> <<>>, phone |-> <<>>, address |-> <<>>,
     date_of_birth |-> [y |-> 0, d |-> 0], employment_status |-> "employed",
     monthly_income |-> 0]

\* App as mounted, nobody signed in
AppIdle ==
    /\ session = Null
    /\ user = Null
    /\ adminState = [isAdmin |-> FALSE, profile |-> Null]
    /\ checks = {}
    /\ nextCheck = 1
    /\ signingOut = FALSE

FormIdle ==
    /\ form = EmptyForm
    /\ formLoading = FALSE
    /\ formSuccess = FALSE
    /\ formErrors = {}
    /\ saves = {}
    /\ formToasts = <<>>

\* nothing staged, sent, stored or notified
SendIdle ==
    /\ selectedFile = [s \in Sessions |-> NoFile]
    /\ sends = {}
    /\ nextSend = 1
    /\ objects = <<>>
    /\ nextPath = 1
    /\ toasts = [s \in Sessions |-> <<>>]

TypingIdle ==
    /\ newMessage = [s \in Sessions |-> <<>>]
    /\ focused = [s \in Sessions |-> FALSE]
    /\ timeoutRef = [s \in Sessions |-> 0]
    /\ timers = [s \in Sessions |-> {}]
    /\ nextTimer = 1
    /\ upserts = {}
    /\ nextUpsert = 1
    /\ lastIssued = [s \in Sessions |-> "none"]
    /\ typingStatus = [s \in Sessions |-> <<>>]
    /\ typFeed = [s \in Sessions |-> <<>>]
    /\ typSeen = [s \in Sessions |-> 0]

----------------------------------------------------------------------------
(* SpecLoan: loan applications, admin dashboards, the owners' lists *)

InitLoan ==
    /\ StoreInit
    /\ dashUser \in {f \in [Dash -> Users] : is_admin(f[1])}
    /\ LoanIdle
    /\ ChatIdle
    /\ TypingIdle
    /\ SendIdle
    /\ FormIdle
    /\ AppIdle

NextLoan ==
    \/ \E u \in EndUsers : SubmitLoan(u)
    \/ \E d \in Dash : FetchAllApplications(d)
    \/ \E d \in Dash, id \in 1..MaxApps, st \in {"approved", "rejected"} : ClickStatus(d, id, st)
    \/ \E r \in updReqs : StatusUpdateApply(r)
    \/ \E r \in updReqs : StatusUpdateDone(r)
    \/ \E u \in EndUsers : FetchLoans(u)

SpecLoan == InitLoan /\ [][NextLoan]_vars

\* C1: a loan application's status only changes from pending to approved or
\* from pending to rejected; an approved or rejected application never
\* changes status again, whatever dashboards issue updates.
C1_StatusOnlyLeavesPending ==
    [][\A id \in DOMAIN apps :
          apps'[id].status # apps[id].status =>
              /\ apps[id].status = "pending"
              /\ apps'[id].status \in {"approved", "rejected"}]_vars

\* C2: an update issued under an identity whose profile is not flagged admin
\* leaves the status as it is, and once an admin has approved a pending
\* application every later fetch of the owner's list shows it as approved.
C2_NonAdminDeniedApprovedStays ==
    [][/\ \A r \in updReqs :
             (StatusUpdateApply(r) /\ ~is_admin(dashUser[r.d])) => apps' = apps
       /\ \A u \in EndUsers :
             FetchLoans(u) =>
                 \A id \in approvedOnce : apps[id].user_id = u => loans'[u][id] = "approved"]_vars

----------------------------------------------------------------------------
(* SpecChat: ChatSupport sessions, the message table, read receipts *)

InitChat ==
    /\ StoreInit
    /\ dashUser = [d \in Dash |-> "a1"]
    /\ LoanIdle
    /\ ChatIdle
    /\ TypingIdle
    /\ SendIdle
    /\ FormIdle
    /\ AppIdle

\* the identity that opens the chat, in up to MaxSessions tabs; support staff
\* act through SupportReply
ChatUsers == {"u1"}

NextChat ==
    \/ \E s \in Sessions, u \in ChatUsers : Mount(s, u, is_admin(u))
    \/ \E s \in Sessions : GetUserDone(s)
    \/ \E s \in Sessions : ProfileDone(s)
    \/ \E s \in Sessions : LookupDone(s)
    \/ \E s \in Sessions : CreateDone(s)
    \/ \E s \in Sessions : ChannelJoined(s)
    \/ \E s \in Sessions : Unmount(s)
    \/ \E s \in Sessions : SessionInsert(s)
    \/ \E a \in AdminUsers, c \in 1..MaxConvs : SupportReply(a, c)
    \/ \E s \in Sessions : OnMessageInsert(s)
    \/ \E s \in Sessions : FetchRead(s)
    \/ \E s \in Sessions : FetchDone(s)
    \/ \E r \in markReqs : MarkReadApply(r)

SpecChat == InitChat /\ [][NextChat]_vars

\* C3: the message-insert callback issues a mark-read write only for a message
\* whose sender is not the viewer, and no write of the sender's own session
\* sets the message's read timestamp.
C3_FeedMarksOnlyOthers ==
    [][/\ \A r \in markReqs' \ markReqs :
             r.via = "feed" => msgs[r.m].user_id # r.uid
       /\ \A r \in markReqs :
             (MarkReadApply(r) /\ msgs[r.m].user_id = r.uid) =>
                 msgs'[r.m].read_at = msgs[r.m].read_at]_vars

\* C5: when the mark-read call of a viewer who is not the sender has been
\* processed by the store, the message's read timestamp is set.
C5_ReadByOtherSetsReadAt ==
    [][\A r \in markReqs :
          (MarkReadApply(r) /\ msgs[r.m].user_id # r.uid) => msgs'[r.m].read_at # 0]_vars

----------------------------------------------------------------------------
(* SpecOpenSeq: chat opens one after another *)

\* An open begins only when no setupChat of the same identity is under way.
MountSeq(s, u, adm) ==
    /\ \A t \in Sessions : sessUser[t] = u => pc[t] \in {"closed", "ready"}
    /\ Mount(s, u, adm)

NextOpenSeq ==
    \/ \E s \in Sessions, u \in Users, adm \in BOOLEAN : MountSeq(s, u, adm)
    \/ \E s \in Sessions : GetUserDone(s)
    \/ \E s \in Sessions : ProfileDone(s)
    \/ \E s \in Sessions : LookupDone(s)
    \/ \E s \in Sessions : CreateDone(s)
    \/ \E s \in Sessions : ChannelJoined(s)
    \/ \E s \in Sessions : Unmount(s)
    \/ \E s \in Sessions : FetchRead(s)
    \/ \E s \in Sessions : FetchDone(s)

SpecOpenSeq == InitChat /\ [][NextOpenSeq]_vars

ConvsOf(u) == {c \in DOMAIN convs : convs[c].user_id = u}

\* C10: when the opens of an identity follow one another, its end-user sessions
\* create exactly one conversation row between them, and every session that
\* has finished opening holds the id of that row.
C10_SequentialOpensShareOneConversation ==
    /\ \A u \in Users : Cardinality(ConvsOf(u)) <= 1
    /\ \A s \in Sessions :
          (pc[s] = "ready" /\ ~isAdmin[s]) =>
              /\ ConvsOf(sessUser[s]) = {conversationId[s]}
              /\ conversationId[s] # 0

\* a second open of the same end user has finished after the first one
C10_Witness ==
    \E s, t \in Sessions :
        /\ s # t /\ sessUser[s] = sessUser[t] /\ sessUser[s] \in EndUsers
        /\ pc[s] = "ready" /\ pc[t] = "ready" /\ ~isAdmin[s] /\ ~isAdmin[t]
        /\ mounted[s] /\ mounted[t]
        /\ conversationId[s] = conversationId[t] /\ conversationId[s] # 0

----------------------------------------------------------------------------
(* SpecMarkRead: markMessageAsRead against either outcome of the UPDATE policy *)

\* a conversation of u1 with MaxMsgs messages of any senders, none read, and
\* sessions of any identities
InitMarkRead ==
    /\ profiles = SeedProfiles
    /\ apps = <<>>
    /\ convs = <<[user_id |-> "u1", status |-> "active"]>>
    /\ msgs \in [1..MaxMsgs -> {[conversation_id |-> 1, user_id |-> u, is_support |-> (u = "a1"),
                                 read_at |-> 0] : u \in {"u1", "a1"}}]
    /\ typing = <<>>
    /\ dashUser = [d \in Dash |-> "a1"]
    /\ LoanIdle
    /\ ChatIdle
    /\ TypingIdle
    /\ SendIdle
    /\ FormIdle
    /\ AppIdle

\* markMessageAsRead(m) called by a session of identity u
MarkReadCall(s, u, m) ==
    /\ clock <= MaxClock
    /\ m \in DOMAIN msgs
    /\ sessUser' = [sessUser EXCEPT ![s] = u]
    /\ markReqs' = markReqs \cup {[uid |-> u, m |-> m, at |-> clock, via |-> "call"]}
    /\ clock' = clock + 1
    /\ UNCHANGED <<appVars, formVars, sendVars, storeVars, loanVars, isAdmin, mounted, pc, profile, loading, subscribed,
                   userId, conversationId, messages, fetchSt, fetchData, msgFeed, msgSeen,
                   markRepeats, typingVars>>

NextMarkRead ==
    \/ \E s \in Sessions, u \in Users, m \in 1..MaxMsgs : MarkReadCall(s, u, m)
    \/ \E r \in markReqs, allowed \in BOOLEAN : MarkReadProcess(r, allowed)

SpecMarkRead == InitMarkRead /\ [][NextMarkRead]_vars

\* The migrations create no UPDATE policy on chat_messages, so under SpecChat no
\* update ever sets read_at; here the store's verdict on each update is left
\* open, which covers the policies of the migrations and any that admit it.
\* C4: marking read is idempotent: once a message's read timestamp is set, no
\* later mark-read call, of any session and in any order, changes it.
C4_MarkReadIdempotent ==
    [][\A m \in DOMAIN msgs : msgs[m].read_at # 0 => msgs'[m].read_at = msgs[m].read_at]_vars

\* a mark-read update was processed for a message already marked read
C4_Witness ==
    \E m \in DOMAIN msgs : msgs[m].read_at # 0 /\ markRepeats[m] >= 1

----------------------------------------------------------------------------
(* SpecTyping: the typing status of an open chat *)

\* End user u1 has opened the chat in session 1: setupChat has finished with
\* conversation 1 and both channels have joined.  The other sessions are closed.
InitTyping ==
    /\ profiles = SeedProfiles
    /\ apps = <<>>
    /\ convs = <<[user_id |-> "u1", status |-> "active"]>>
    /\ msgs = <<>>
    /\ typing = <<>>
    /\ dashUser = [d \in Dash |-> "a1"]
    /\ LoanIdle
    /\ sessUser = [s \in Sessions |-> "u1"]
    /\ isAdmin = [s \in Sessions |-> FALSE]
    /\ mounted = [s \in Sessions |-> s = 1]
    /\ pc = [s \in Sessions |-> IF s = 1 THEN "ready" ELSE "closed"]
    /\ profile = [s \in Sessions |-> IF s = 1 THEN SeedProfiles["u1"] ELSE NoProfile]
    /\ loading = [s \in Sessions |-> s # 1]
    /\ subscribed = [s \in Sessions |-> s = 1]
    /\ userId = [s \in Sessions |-> IF s = 1 THEN "u1" ELSE Null]
    /\ conversationId = [s \in Sessions |-> IF s = 1 THEN 1 ELSE 0]
    /\ messages = [s \in Sessions |-> <<>>]
    /\ fetchSt = [s \in Sessions |-> IF s = 1 THEN "done" ELSE "none"]
    /\ fetchData = [s \in Sessions |-> <<>>]
    /\ msgFeed = [s \in Sessions |-> <<>>]
    /\ msgSeen = [s \in Sessions |-> 0]
    /\ markReqs = {}
    /\ clock = 1
    /\ markRepeats = [m \in 1..MaxMsgs |-> 0]
    /\ TypingIdle
    /\ SendIdle
    /\ FormIdle
    /\ AppIdle

NextTyping ==
    \/ \E s \in Sessions : Focus(s)
    \/ \E s \in Sessions : KeyStroke(s, <<"H", "i">>)
    \/ \E s \in Sessions : ClearInput(s)
    \/ \E s \in Sessions : Blur(s)
    \/ \E s \in Sessions, t \in 1..MaxUpserts : TimerFire(s, t)
    \/ \E q \in upserts : UpsertApply(q)
    \/ \E q \in upserts : UpsertDone(q)
    \/ \E c \in 1..MaxConvs, u \in Users : MessageTrigger(c, u)
    \/ \E a \in AdminUsers, c \in 1..MaxConvs, flag \in BOOLEAN : SupportTyping(a, c, flag)
    \/ \E s \in Sessions : OnTypingChange(s)

SpecTyping == InitTyping /\ [][NextTyping]_vars

\* the upserts of the pair (c, u) that have not completed
InFlight(c, u) == {q \in upserts : q.conv = c /\ q.uid = u}

\* C6: the typing-status table holds at most one row for a (conversation,
\* participant) pair, and once the store has processed the most recently
\* issued upsert of the chat client for the pair, the pair's row carries the
\* flag of that upsert.
C6_RowReflectsLatestUpsert ==
    [][\A q \in upserts :
          UpsertApply(q) =>
              /\ \A c \in DOMAIN convs, u \in Users : Cardinality(RowsOf(typing', c, u)) <= 1
              /\ (\A o \in InFlight(q.conv, q.uid) : o.id <= q.id) =>
                     \E i \in RowsOf(typing', q.conv, q.uid) : typing'[i].is_typing = q.flag]_vars

\* C7: a session has at most one inactivity timer pending, and none while its
\* input is blurred or empty.
C7_AtMostOneTimer ==
    \A s \in Sessions :
        /\ Cardinality(timers[s]) <= 1
        /\ (~focused[s] \/ newMessage[s] = <<>>) => timers[s] = {}

OtherTyping(s) ==
    \E i \in DOMAIN typing :
        /\ typing[i].conversation_id = conversationId[s]
        /\ typing[i].user_id # userId[s]
        /\ typing[i].is_typing

\* C9: in an open session that has handled every notification sent to it, the
\* typing indicator is shown if and only if another participant's stored
\* typing flag for the conversation is true.
C9_IndicatorIffOtherTyping ==
    \A s \in Sessions :
        (mounted[s] /\ subscribed[s] /\ conversationId[s] # 0 /\ typSeen[s] = Len(typFeed[s])) =>
            (Indicator(s) <=> OtherTyping(s))

----------------------------------------------------------------------------
(* Concurrent opens *)

\* the active conversations of identity u in the store
ActiveOf(u) == {c \in DOMAIN convs : convs[c].user_id = u /\ convs[c].status = "active"}

\* C11: in every reachable state the conversation store holds at most one
\* active conversation for each identity, also when sessions of the same
\* identity are opened concurrently.
C11_AtMostOneActiveConversation ==
    \A u \in Users : Cardinality(ActiveOf(u)) <= 1

----------------------------------------------------------------------------
(* SpecOpenGate: chat opens by identities with and without a profile row *)

\* full_name is NOT NULL with at least 2 characters, so a stored profile has a
\* name; an identity that has not saved the profile form has no row.
InitGate ==
    /\ profiles \in {p \in [Users -> {SeedProfiles["u1"], SeedProfiles["a1"], NoProfile}] :
                        /\ p["a1"] = SeedProfiles["a1"]
                        /\ \A u \in EndUsers : ~p[u].is_admin}
    /\ apps = <<>>
    /\ convs = <<>>
    /\ msgs = <<>>
    /\ typing = <<>>
    /\ dashUser = [d \in Dash |-> "a1"]
    /\ LoanIdle
    /\ ChatIdle
    /\ TypingIdle
    /\ SendIdle
    /\ FormIdle
    /\ AppIdle

SpecOpenGate == InitGate /\ [][NextOpenSeq]_vars

\* C12: for an end-user session whose identity has no profile name, no chat
\* store call is made: no conversation lookup or creation, no message fetch
\* and no subscription.
C12_NoStoreCallWithoutProfile ==
    \A s \in Sessions :
        (~isAdmin[s] /\ profiles[sessUser[s]].full_name = <<>>) =>
            /\ pc[s] \notin {"lookup", "create"}
            /\ conversationId[s] = 0
            /\ fetchSt[s] = "none"
            /\ ~subscribed[s]

----------------------------------------------------------------------------
(* ChatSupport: the compose form, attachments, handleSubmit *)

MaxSends == 3       \* submit events
MaxToasts == 2      \* error notifications shown in one session

\* file.size > 5 * 1024 * 1024 is refused
MaxFileBytes == 5 * 1024 * 1024

\* files the picker can return: well under the limit, exactly at it, one byte
\* over it and 6 MiB
Files ==
    {[name |-> "id.png",   size |-> 1024,                type |-> "image/png"],
     [name |-> "slip.pdf", size |-> MaxFileBytes,        type |-> "application/pdf"],
     [name |-> "scan.pdf", size |-> MaxFileBytes + 1,    type |-> "application/pdf"],
     [name |-> "film.doc", size |-> 6 * 1024 * 1024,     type |-> "application/msword"]}

\* texts of the compose input, as sequences of characters
Drafts == {<<>>, <<" ">>, <<"H", "i">>, <<" ", "O", "k", " ">>}

\* String.prototype.trim(): white space is removed from both ends
RECURSIVE TrimStart(_)
TrimStart(v) == IF v # <<>> /\ Head(v) = " " THEN TrimStart(Tail(v)) ELSE v

RECURSIVE TrimEnd(_)
TrimEnd(v) == IF v # <<>> /\ v[Len(v)] = " " THEN TrimEnd(SubSeq(v, 1, Len(v) - 1)) ELSE v

\* a text handed on as it is
Untrimmed(v) == v

Trim(v) == TrimEnd(TrimStart(v))

\* a size test that lets every file pass
AnySize(f) == FALSE

\* handleFileSelect: file.size > 5 * 1024 * 1024
TooLarge(f) == f.size > MaxFileBytes

\* the notification of session s
Toast(s, text) == [toasts EXCEPT ![s] = Append(@, text)]

\* handleFileSelect with file f picked: an oversized file raises the
\* notification and returns, any other file is staged
FileSelect(s, f) ==
    /\ FormShown(s)
    /\ IF TooLarge(f)
       THEN /\ Len(toasts[s]) < MaxToasts
            /\ toasts' = Toast(s, "File size must be less than 5MB")
            /\ UNCHANGED selectedFile
       ELSE /\ selectedFile' = [selectedFile EXCEPT ![s] = f]
            /\ UNCHANGED toasts
    /\ UNCHANGED <<appVars, formVars, storeVars, loanVars, chatVars, typingVars, sends, nextSend, objects, nextPath>>

\* the name of the upload before, drawn again
LastPath == IF nextPath > 1 THEN nextPath - 1 ELSE nextPath

\* uploadFile: `${userId}/${Math.random().toString(36).substring(2)}.${fileExt}`,
\* taken to differ from every name drawn before
NewPath == nextPath

\* handleSubmit up to its first await.  The call works on the newMessage,
\* selectedFile, conversationId, userId and isAdmin of the render it was made in.
\*   (!newMessage.trim() && !selectedFile) || !userId: return
\*   a staged file: uploadFile(selectedFile) is awaited
\*   otherwise: the insert is awaited
Submit(s) ==
    /\ FormShown(s)
    /\ nextSend <= MaxSends
    /\ nextSend' = nextSend + 1
    /\ IF (Trim(newMessage[s]) = <<>> /\ selectedFile[s] = NoFile) \/ userId[s] = Null
       THEN UNCHANGED <<sends, nextPath>>
       ELSE LET q == [id |-> nextSend, s |-> s, body |-> newMessage[s], file |-> selectedFile[s],
                      conv |-> conversationId[s], uid |-> userId[s], adm |-> isAdmin[s]]
            IN  IF selectedFile[s] # NoFile
                THEN /\ sends' = sends \cup {q @@ [stage |-> "upload", path |-> NewPath]}
                     /\ nextPath' = nextPath + 1
                ELSE /\ sends' = sends \cup {q @@ [stage |-> "insert", path |-> 0]}
                     /\ UNCHANGED nextPath
    /\ UNCHANGED <<appVars, formVars, storeVars, loanVars, chatVars, typingVars, selectedFile, objects, toasts>>

\* a failure that tells nobody
SilentFailure(q) ==
    /\ sends' = sends \ {q}
    /\ UNCHANGED <<toasts, newMessage, selectedFile>>

\* handleSubmit's catch: console.error, toast.error('Failed to send message');
\* the draft and the staged file are left as they are
SendFailed(q) ==
    /\ sends' = sends \ {q}
    /\ toasts' = Toast(q.s, "Failed to send message")
    /\ UNCHANGED <<newMessage, selectedFile>>

\* the upload returns.  ok: the object is stored, getPublicUrl gives its URL and
\* the insert is sent.  Otherwise uploadFile rethrows and handleSubmit catches.
UploadDone(q, ok) ==
    /\ q \in sends /\ q.stage = "upload"
    /\ IF ok
       THEN /\ objects' = Append(objects, [path |-> q.path, owner |-> q.uid, file |-> q.file])
            /\ sends' = (sends \ {q}) \cup {[q EXCEPT !.stage = "insert"]}
            /\ UNCHANGED <<toasts, newMessage, selectedFile>>
       ELSE /\ SendFailed(q)
            /\ UNCHANGED objects
    /\ UNCHANGED <<appVars, formVars, storeVars, loanVars, chatVars, focused, timeoutRef, timers, nextTimer, upserts,
                   nextUpsert, lastIssued, typingStatus, typFeed, typSeen, nextSend, nextPath>>

\* the row of handleSubmit's insert
SendRow(q) ==
    [conversation_id |-> q.conv, user_id |-> q.uid, is_support |-> q.adm, read_at |-> 0,
     message |-> Trim(q.body),
     attachment_url |-> IF q.file # NoFile THEN q.path ELSE 0,
     attachment_type |-> IF q.file # NoFile THEN q.file.type ELSE ""]

\* an insert checked against the INSERT policy alone
PolicyOnly(q) == MsgInsertPolicy(sessUser[q.s], SendRow(q))

\* conversation_id is NOT NULL and the INSERT policy is checked under the caller
InsertAccepted(q) ==
    /\ q.conv # 0
    /\ MsgInsertPolicy(sessUser[q.s], SendRow(q))

\* the insert returns.  ok: the row is stored; setNewMessage(''),
\* setSelectedFile(null).  Otherwise (refused by the store, or not delivered):
\* if (error) throw error, and the catch.
InsertDone(q, ok) ==
    /\ q \in sends /\ q.stage = "insert"
    /\ ok => InsertAccepted(q)
    /\ IF ok
       THEN /\ InsertMessage(SendRow(q))
            /\ sends' = sends \ {q}
            /\ newMessage' = [newMessage EXCEPT ![q.s] = IF mounted[q.s] THEN <<>> ELSE @]
            /\ selectedFile' = [selectedFile EXCEPT ![q.s] = IF mounted[q.s] THEN NoFile ELSE @]
            /\ UNCHANGED toasts
       ELSE /\ SendFailed(q)
            /\ UNCHANGED <<msgs, msgFeed>>
    /\ UNCHANGED <<appVars, formVars, profiles, apps, convs, typing, loanVars, sessUser, isAdmin, mounted, pc,
                   profile, loading, subscribed, userId, conversationId, messages, fetchSt,
                   fetchData, msgSeen, markReqs, clock, markRepeats, focused, timeoutRef,
                   timers, nextTimer, upserts, nextUpsert, lastIssued, typingStatus, typFeed,
                   typSeen, nextSend, objects, nextPath>>

----------------------------------------------------------------------------
(* SpecSend: sends from an open chat *)

\* End user u1 has opened the chat in session 1 (conversation 1, channels
\* joined) and has typed a draft.  The other sessions are closed.
InitSend ==
    /\ profiles = SeedProfiles
    /\ apps = <<>>
    /\ convs = <<[user_id |-> "u1", status |-> "active"]>>
    /\ msgs = <<>>
    /\ typing = <<>>
    /\ dashUser = [d \in Dash |-> "a1"]
    /\ LoanIdle
    /\ sessUser = [s \in Sessions |-> "u1"]
    /\ isAdmin = [s \in Sessions |-> FALSE]
    /\ mounted = [s \in Sessions |-> s = 1]
    /\ pc = [s \in Sessions |-> IF s = 1 THEN "ready" ELSE "closed"]
    /\ profile = [s \in Sessions |-> IF s = 1 THEN SeedProfiles["u1"] ELSE NoProfile]
    /\ loading = [s \in Sessions |-> s # 1]
    /\ subscribed = [s \in Sessions |-> s = 1]
    /\ userId = [s \in Sessions |-> IF s = 1 THEN "u1" ELSE Null]
    /\ conversationId = [s \in Sessions |-> IF s = 1 THEN 1 ELSE 0]
    /\ messages = [s \in Sessions |-> <<>>]
    /\ fetchSt = [s \in Sessions |-> IF s = 1 THEN "done" ELSE "none"]
    /\ fetchData = [s \in Sessions |-> <<>>]
    /\ msgFeed = [s \in Sessions |-> <<>>]
    /\ msgSeen = [s \in Sessions |-> 0]
    /\ markReqs = {}
    /\ clock = 1
    /\ markRepeats = [m \in 1..MaxMsgs |-> 0]
    /\ \E v \in Drafts : newMessage = [s \in Sessions |-> IF s = 1 THEN v ELSE <<>>]
    /\ focused = [s \in Sessions |-> FALSE]
    /\ timeoutRef = [s \in Sessions |-> 0]
    /\ timers = [s \in Sessions |-> {}]
    /\ nextTimer = 1
    /\ upserts = {}
    /\ nextUpsert = 1
    /\ lastIssued = [s \in Sessions |-> "none"]
    /\ typingStatus = [s \in Sessions |-> <<>>]
    /\ typFeed = [s \in Sessions |-> <<>>]
    /\ typSeen = [s \in Sessions |-> 0]
    /\ SendIdle
    /\ FormIdle
    /\ AppIdle

NextSend ==
    \/ \E s \in Sessions, f \in Files : FileSelect(s, f)
    \/ \E s \in Sessions : Submit(s)
    \/ \E q \in sends, ok \in BOOLEAN : UploadDone(q, ok)
    \/ \E q \in sends, ok \in BOOLEAN : InsertDone(q, ok)

SpecSend == InitSend /\ [][NextSend]_vars

\* every character of v is white space
AllBlank(v) == \A i \in DOMAIN v : v[i] = " "

\* C13: a submit with an empty or whitespace-only body and no staged
\* attachment issues no upload and no insert, and leaves the draft, the staged
\* attachment, the message list and the stores unchanged.
C13_BlankSubmitRejected ==
    [][\A s \in Sessions :
          (Submit(s) /\ AllBlank(newMessage[s]) /\ selectedFile[s] = NoFile) =>
              /\ sends' = sends /\ nextPath' = nextPath
              /\ msgs' = msgs /\ objects' = objects
              /\ newMessage' = newMessage /\ selectedFile' = selectedFile
              /\ messages' = messages]_vars

\* a submit of a whitespace-only draft has been refused
C13_Witness ==
    \E s \in Sessions :
        /\ FormShown(s) /\ newMessage[s] # <<>> /\ AllBlank(newMessage[s])
        /\ selectedFile[s] = NoFile
        /\ nextSend > 1 /\ sends = {} /\ msgs = <<>> /\ objects = <<>> /\ toasts[s] = <<>>

\* C14: when the insert of a send succeeds, the compose input and the staged
\* attachment are cleared; when its upload or its insert fails, both keep
\* their values, an error notification is raised and no further upload or
\* insert is issued.
C14_ClearOnSuccessKeepOnFailure ==
    [][\A q \in sends :
          /\ (InsertDone(q, TRUE) /\ mounted[q.s]) =>
                 newMessage'[q.s] = <<>> /\ selectedFile'[q.s] = NoFile
          /\ (UploadDone(q, FALSE) \/ InsertDone(q, FALSE)) =>
                 /\ newMessage' = newMessage /\ selectedFile' = selectedFile
                 /\ Len(toasts'[q.s]) = Len(toasts[q.s]) + 1
                 /\ sends' = sends \ {q}
                 /\ msgs' = msgs /\ objects' = objects]_vars

\* a send has failed and been notified, and a text has been sent and cleared
C14_Witness ==
    \E s \in Sessions :
        /\ \E i \in DOMAIN toasts[s] : toasts[s][i] = "Failed to send message"
        /\ \E m \in DOMAIN msgs : msgs[m].message # <<>> /\ msgs[m].user_id = userId[s]
        /\ newMessage[s] = <<>> /\ selectedFile[s] = NoFile

\* t is v without the white space at its two ends
IsTrimOf(t, v) ==
    /\ t = <<>> \/ (t[1] # " " /\ t[Len(t)] # " ")
    /\ \E i \in 0..Len(v) :
          /\ i + Len(t) <= Len(v)
          /\ SubSeq(v, i + 1, i + Len(t)) = t
          /\ \A k \in 1..Len(v) : (k <= i \/ k > i + Len(t)) => v[k] = " "

\* C15: a successful send of a text-only draft from an end-user session with a
\* conversation creates exactly one message row: its conversation is the
\* session's, its sender the caller, its body the trimmed draft, its
\* sender-role flag the session's admin mode, its attachment fields empty.
C15_TextSendCreatesOneRow ==
    [][\A q \in sends :
          (InsertDone(q, TRUE) /\ q.file = NoFile) =>
              /\ Len(msgs') = Len(msgs) + 1
              /\ \A m \in DOMAIN msgs : msgs'[m] = msgs[m]
              /\ LET row == msgs'[Len(msgs')] IN
                    /\ row.conversation_id = conversationId[q.s]
                    /\ row.user_id = sessUser[q.s]
                    /\ IsTrimOf(row.message, q.body)
                    /\ row.is_support = isAdmin[q.s]
                    /\ row.attachment_url = 0 /\ row.attachment_type = ""]_vars

\* the draft " Ok " has been sent as "Ok" without an attachment
C15_Witness ==
    \E m \in DOMAIN msgs :
        /\ msgs[m].message = <<"O", "k">>
        /\ msgs[m].attachment_url = 0
        /\ ~msgs[m].is_support

\* C16: the staged attachment and every uploaded object have at most 5 MiB,
\* and selecting a larger file issues no upload or store call and leaves the
\* draft and the staged attachment unchanged.
C16_StagedFileWithinLimit ==
    /\ [](/\ \A s \in Sessions : selectedFile[s].size <= 5 * 1024 * 1024
          /\ \A i \in DOMAIN objects : objects[i].file.size <= 5 * 1024 * 1024
          /\ \A q \in sends : q.file.size <= 5 * 1024 * 1024)
    /\ [][\A s \in Sessions, f \in Files :
             (FileSelect(s, f) /\ f.size > 5 * 1024 * 1024) =>
                 /\ newMessage' = newMessage /\ selectedFile' = selectedFile
                 /\ sends' = sends /\ objects' = objects /\ msgs' = msgs]_vars

\* an oversized file was refused while a file within the limit stays staged
C16_Witness ==
    \E s \in Sessions :
        /\ \E i \in DOMAIN toasts[s] : toasts[s][i] = "File size must be less than 5MB"
        /\ selectedFile[s] # NoFile
        /\ selectedFile[s].size = 5 * 1024 * 1024

\* the paths of the uploaded objects
Paths == {objects[i].path : i \in DOMAIN objects}

\* C17: no uploaded object is ever removed; when the insert fails after a
\* successful upload, the object stays with no message row referencing it; and
\* every upload, a resubmit's too, goes to a path not used before.
C17_OrphanStaysResubmitUploadsAnew ==
    [][/\ \A i \in DOMAIN objects : i \in DOMAIN objects' /\ objects'[i] = objects[i]
       /\ \A q \in sends :
             (InsertDone(q, FALSE) /\ q.file # NoFile) =>
                 /\ q.path \in Paths /\ objects' = objects
                 /\ \A m \in DOMAIN msgs' : msgs'[m].attachment_url # q.path
       /\ \A q \in sends' \ sends :
             q.stage = "upload" =>
                 /\ q.path \notin Paths
                 /\ \A o \in sends : o.path # q.path]_vars

\* the same file lies in the bucket twice under two paths, the first copy
\* referenced by no message row and no send
C17_Witness ==
    \E i, j \in DOMAIN objects :
        /\ i < j
        /\ objects[i].file = objects[j].file
        /\ objects[i].path # objects[j].path
        /\ \A m \in DOMAIN msgs : msgs[m].attachment_url # objects[i].path
        /\ \A q \in sends : q.path # objects[i].path

----------------------------------------------------------------------------
(* SpecFail: store calls of a chat session that fail *)

\* supabase-js resolves a failed call to { data: null, error }; it does not throw.

\* the profile query fails: setProfile(null), and setupChat goes on
ProfileFail(s) ==
    /\ pc[s] = "profile"
    /\ profile' = [profile EXCEPT ![s] = NoProfile]
    /\ pc' = [pc EXCEPT ![s] = IF isAdmin[s] THEN "ready" ELSE "lookup"]
    /\ loading' = [loading EXCEPT ![s] = IF isAdmin[s] THEN FALSE ELSE loading[s]]
    /\ UNCHANGED <<appVars, formVars, sendVars, storeVars, loanVars, sessUser, isAdmin, mounted, subscribed, userId,
                   conversationId, messages, fetchSt, fetchData, msgFeed, msgSeen,
                   markReqs, clock, markRepeats, typingVars>>

\* the conversation lookup fails: existingConv is null, so the insert is sent
LookupFail(s) ==
    /\ pc[s] = "lookup"
    /\ pc' = [pc EXCEPT ![s] = "create"]
    /\ UNCHANGED <<appVars, formVars, sendVars, storeVars, loanVars, sessUser, isAdmin, mounted, profile, loading,
                   subscribed, userId, conversationId, messages, fetchSt, fetchData, msgFeed,
                   msgSeen, markReqs, clock, markRepeats, typingVars>>

\* the conversation insert fails: !error && newConv is false; setLoading(false)
CreateFail(s) ==
    /\ pc[s] = "create"
    /\ pc' = [pc EXCEPT ![s] = "ready"]
    /\ loading' = [loading EXCEPT ![s] = FALSE]
    /\ UNCHANGED <<appVars, formVars, sendVars, storeVars, loanVars, sessUser, isAdmin, mounted, profile,
                   subscribed, userId, conversationId, messages, fetchSt, fetchData, msgFeed,
                   msgSeen, markReqs, clock, markRepeats, typingVars>>

\* the select of fetchMessages fails: if (error) throw error, and the catch:
\* toast.error('Failed to load messages')
FetchFail(s) ==
    /\ fetchSt[s] = "sent"
    /\ Len(toasts[s]) < MaxToasts
    /\ fetchSt' = [fetchSt EXCEPT ![s] = "done"]
    /\ toasts' = Toast(s, "Failed to load messages")
    /\ UNCHANGED <<appVars, formVars, storeVars, loanVars, sessUser, isAdmin, mounted, pc, profile, loading,
                   subscribed, userId, conversationId, messages, fetchData, msgFeed, msgSeen,
                   markReqs, clock, markRepeats, typingVars, selectedFile, sends, nextSend,
                   objects, nextPath>>

\* the update of markMessageAsRead fails: the awaited answer is dropped
MarkReadFail(r) ==
    /\ r \in markReqs
    /\ markReqs' = markReqs \ {r}
    /\ UNCHANGED <<appVars, formVars, sendVars, storeVars, loanVars, sessUser, isAdmin, mounted, pc, profile,
                   loading, subscribed, userId, conversationId, messages, fetchSt, fetchData,
                   msgFeed, msgSeen, clock, markRepeats, typingVars>>

\* one chat session of end user u1; support staff reply from outside
NextFail ==
    \/ Mount(1, "u1", FALSE)
    \/ GetUserDone(1)
    \/ ProfileDone(1)
    \/ ProfileFail(1)
    \/ LookupDone(1)
    \/ LookupFail(1)
    \/ CreateDone(1)
    \/ CreateFail(1)
    \/ ChannelJoined(1)
    \/ Unmount(1)
    \/ FetchRead(1)
    \/ FetchFail(1)
    \/ FetchDone(1)
    \/ \E a \in AdminUsers, c \in 1..MaxConvs : SupportReply(a, c)
    \/ OnMessageInsert(1)
    \/ \E r \in markReqs : MarkReadApply(r)
    \/ \E r \in markReqs : MarkReadFail(r)

SpecFail == InitChat /\ [][NextFail]_vars

\* C18: every failing call of the chat session (profile fetch, conversation
\* lookup, conversation create, message fetch, mark-read update) raises a
\* notification in the session and is followed by no further store call of
\* setupChat.
C18_FailuresNotified ==
    [][/\ \A s \in Sessions :
             (ProfileFail(s) \/ LookupFail(s) \/ CreateFail(s) \/ FetchFail(s)) =>
                 /\ Len(toasts'[s]) = Len(toasts[s]) + 1
                 /\ pc'[s] \notin {"lookup", "create"}
       /\ \A r \in markReqs :
             MarkReadFail(r) => \E s \in Sessions : Len(toasts'[s]) = Len(toasts[s]) + 1]_vars

----------------------------------------------------------------------------
(* The message list of an open session *)

\* the ids of the rows of a message list, in order
RECURSIVE Ids(_)
Ids(list) == IF list = <<>> THEN <<>> ELSE <<Head(list).id>> \o Ids(Tail(list))

IsPrefix(a, b) == Len(a) <= Len(b) /\ SubSeq(b, 1, Len(a)) = a

\* C19: while a session stays open its message list is append-only: every
\* value of the list is a prefix of the next, whatever the order of the
\* history fetch completing and the insert notifications arriving.
C19_MessageListAppendOnly ==
    [][\A s \in Sessions :
          (mounted[s] /\ mounted'[s]) => IsPrefix(Ids(messages[s]), Ids(messages'[s]))]_vars

----------------------------------------------------------------------------
(* ProfileForm: validation and the profile upsert *)

MaxFormToasts == 2  \* notifications of the form

\* new Date() / CURRENT_DATE: a year and a day of that year
Today == [y |-> 2026, d |-> 310]

\* the date input left empty
NoDate == [y |-> 0, d |-> 0]

\* a text of n characters, and one of n characters behind a blank
Chars(n) == [i \in 1..n |-> "x"]
Padded(n) == <<" ">> \o Chars(n)

\* values of the inputs around each limit
Names == {<<>>, Chars(1), Padded(1), Chars(2)}
Phones == {Chars(9), Padded(9), Chars(10)}
Addresses == {Chars(4), Padded(4), Chars(5)}
BirthDates == {NoDate, [y |-> 2009, d |-> 1], [y |-> 2008, d |-> 365],
               [y |-> 2008, d |-> 310], [y |-> 1990, d |-> 1]}
Incomes == {-100, 0, 45000}

\* the options of the employment status select, and the two drawn here
EmploymentOptions == {"employed", "self-employed", "unemployed", "retired"}
Employments == {e \in EmploymentOptions : e \in {"employed", "retired"}}

FormInputs ==
    [full_name : Names, phone : Phones, address : Addresses,
     date_of_birth : BirthDates, employment_status : Employments,
     monthly_income : Incomes]

\* validateProfile: the fields that get an error message
\*   !profile.full_name?.trim() || profile.full_name.length < 2, and so on
\*   age = today.getFullYear() - birthDate.getFullYear(); age < 18
\*   !profile.monthly_income || profile.monthly_income <= 0
ValidationErrors(f) ==
    {k \in {"full_name", "phone", "address", "date_of_birth", "monthly_income"} :
        \/ k = "full_name" /\ (Trim(f.full_name) = <<>> \/ Len(f.full_name) < 2)
        \/ k = "phone" /\ (Trim(f.phone) = <<>> \/ Len(f.phone) < 10)
        \/ k = "address" /\ (Trim(f.address) = <<>> \/ Len(f.address) < 5)
        \/ k = "date_of_birth" /\ (f.date_of_birth = NoDate \/ Today.y - f.date_of_birth.y < 18)
        \/ k = "monthly_income" /\ (f.monthly_income = 0 \/ f.monthly_income <= 0)}

\* the `updates` of handleSubmit: the text fields trimmed
Updates(f) ==
    [full_name |-> Trim(f.full_name), phone |-> Trim(f.phone), address |-> Trim(f.address),
     date_of_birth |-> f.date_of_birth, employment_status |-> f.employment_status,
     monthly_income |-> f.monthly_income]

\* a table without CHECK constraints
NoConstraints(row) == TRUE

\* the CHECK constraints of profiles: full_name_length, phone_length,
\* address_length, age_check (date_of_birth <= CURRENT_DATE - INTERVAL '18 years'),
\* valid_employment_status, positive_income (monthly_income >= 0);
\* date_of_birth is NOT NULL
CheckConstraints(row) ==
    /\ Len(row.full_name) >= 2
    /\ Len(row.phone) >= 10
    /\ Len(row.address) >= 5
    /\ row.date_of_birth # NoDate
    /\ \/ row.date_of_birth.y < Today.y - 18
       \/ row.date_of_birth.y = Today.y - 18 /\ row.date_of_birth.d <= Today.d
    /\ row.employment_status \in {"employed", "self-employed", "unemployed", "retired"}
    /\ row.monthly_income >= 0

\* the columns of profiles under a unique constraint in the migrations
ProfileUniqueColumns == {"id"}

\* ON CONFLICT (col) needs a unique constraint on col
ConflictTargetOk(col) == col \in ProfileUniqueColumns

\* handleSubmit up to the upsert (the submit button is disabled while loading)
SubmitProfile ==
    /\ ~formLoading
    /\ Len(formToasts) < MaxFormToasts
    /\ formErrors' = ValidationErrors(form)
    /\ IF ValidationErrors(form) # {}
       THEN /\ formToasts' = Append(formToasts, "Please fix the errors in the form")
            /\ UNCHANGED <<formLoading, formSuccess, saves>>
       ELSE /\ formLoading' = TRUE
            /\ formSuccess' = FALSE
            /\ saves' = {[row |-> Updates(form), stage |-> "sent"]}
            /\ UNCHANGED formToasts
    /\ UNCHANGED <<appVars, storeVars, loanVars, chatVars, typingVars, sendVars, form>>

\* the store processes .upsert(updates, { onConflict: 'user_id' }) of u1, with
\* `indexed` whether user_id carries a unique constraint: without one the
\* statement is refused (42P10), a row that breaks a CHECK is refused (23514),
\* otherwise the row of u1 is inserted or updated
SaveProcess(q, indexed) ==
    /\ q \in saves /\ q.stage = "sent"
    /\ LET result == IF ~indexed THEN "42P10"
                     ELSE IF ~CheckConstraints(q.row) THEN "23514" ELSE "ok"
       IN  /\ saves' = {[q EXCEPT !.stage = result]}
           /\ profiles' = IF result = "ok"
                          THEN [profiles EXCEPT !["u1"] =
                                   [present |-> TRUE, is_admin |-> @.is_admin] @@ q.row]
                          ELSE profiles
    /\ UNCHANGED <<appVars, apps, convs, msgs, typing, loanVars, chatVars, typingVars, sendVars,
                   form, formLoading, formSuccess, formErrors, formToasts>>

\* ... under the constraints of the migrations
SaveApply(q) == SaveProcess(q, ConflictTargetOk("user_id"))

\* fetchProfile: setProfile(data) when the row exists
FetchedForm ==
    IF profiles["u1"].present /\ "phone" \in DOMAIN profiles["u1"]
    THEN [k \in DOMAIN EmptyForm |-> profiles["u1"][k]]
    ELSE form

\* handleSubmit resumes with the answer; finally setLoading(false)
SaveDone(q) ==
    /\ q \in saves /\ q.stage # "sent"
    /\ saves' = {}
    /\ formLoading' = FALSE
    /\ IF q.stage = "ok"
       THEN /\ formSuccess' = TRUE
            /\ formToasts' = Append(formToasts, "Profile updated successfully!")
            /\ form' = FetchedForm
       ELSE /\ formToasts' = Append(formToasts,
                                IF q.stage = "23514"
                                THEN "Please ensure all fields meet the minimum requirements"
                                ELSE "Unable to update profile: An unexpected error occurred")
            /\ UNCHANGED <<form, formSuccess>>
    /\ UNCHANGED <<appVars, storeVars, loanVars, chatVars, typingVars, sendVars, formErrors>>

\* setTimeout(() => setSuccess(false), 3000)
SuccessExpire ==
    /\ formSuccess
    /\ formSuccess' = FALSE
    /\ UNCHANGED <<appVars, storeVars, loanVars, chatVars, typingVars, sendVars, form, formLoading,
                   formErrors, saves, formToasts>>

----------------------------------------------------------------------------
(* SpecProfile: the profile form of end user u1, with any inputs, against a
   profiles table with the CHECK constraints and with or without a unique
   constraint on user_id *)

InitProfile ==
    /\ profiles \in {SeedProfiles, [SeedProfiles EXCEPT !["u1"] = NoProfile]}
    /\ apps = <<>>
    /\ convs = <<>>
    /\ msgs = <<>>
    /\ typing = <<>>
    /\ dashUser = [d \in Dash |-> "a1"]
    /\ LoanIdle
    /\ ChatIdle
    /\ TypingIdle
    /\ SendIdle
    /\ form \in FormInputs
    /\ formLoading = FALSE
    /\ formSuccess = FALSE
    /\ formErrors = {}
    /\ saves = {}
    /\ formToasts = <<>>
    /\ AppIdle

NextProfile ==
    \/ SubmitProfile
    \/ \E q \in saves, indexed \in BOOLEAN : SaveProcess(q, indexed)
    \/ \E q \in saves : SaveDone(q)
    \/ SuccessExpire

SpecProfile == InitProfile /\ [][NextProfile]_vars

\* 18 full years have not passed between the birth date and today
Under18(dob) ==
    \/ dob.y > Today.y - 18
    \/ dob.y = Today.y - 18 /\ dob.d > Today.d

\* the values fail a rule: a text shorter than its minimum once stored, a
\* birth date less than 18 years back, an income of zero or less
FailsRule(f) ==
    \/ Len(Trim(f.full_name)) < 2
    \/ Len(Trim(f.phone)) < 10
    \/ Len(Trim(f.address)) < 5
    \/ Under18(f.date_of_birth)
    \/ f.monthly_income <= 0

\* C20: a submit of profile inputs that fail a validation rule is rejected:
\* no step of it writes or changes a profile row, and it never reports success.
C20_InvalidProfileNotWritten ==
    [][/\ (SubmitProfile /\ FailsRule(form)) => profiles' = profiles /\ ~formSuccess'
       /\ \A q \in saves :
             FailsRule(q.row) =>
                 /\ (SaveProcess(q, TRUE) \/ SaveProcess(q, FALSE)) => profiles' = profiles
                 /\ SaveDone(q) => ~formSuccess' /\ profiles' = profiles]_vars

\* inputs that pass validateProfile but fail a rule were refused by the store
C20_Witness ==
    /\ FailsRule(form)
    /\ ValidationErrors(form) = {}
    /\ \E i \in DOMAIN formToasts :
          formToasts[i] = "Please ensure all fields meet the minimum requirements"
    /\ ~formLoading /\ ~formSuccess
    /\ "phone" \notin DOMAIN profiles["u1"]

----------------------------------------------------------------------------
(* SpecSave: the profile form of end user u1 against the profiles table as
   the migrations create it.  No migration puts a unique constraint on
   user_id, so the store refuses every upsert with onConflict 'user_id'
   (42P10): success is never set and its timeout is never scheduled. *)

NextSave ==
    \/ SubmitProfile
    \/ \E q \in saves : SaveApply(q)
    \/ \E q \in saves : SaveDone(q)

SpecSave == InitProfile /\ [][NextSave]_vars

\* the six fields of the form in the row of owner u, EmptyForm without them
StoredProfile(u) ==
    IF profiles[u].present /\ "phone" \in DOMAIN profiles[u]
    THEN [k \in DOMAIN EmptyForm |-> profiles[u][k]]
    ELSE EmptyForm

\* C21: the store holds at most one profile row per owner, and a save by a
\* user who already has a profile updates that row: once the store has
\* processed the save of values that meet every rule, the row of the owner
\* carries them.
C21_SaveUpdatesOwnRow ==
    [][\A q \in saves :
          (SaveApply(q) /\ profiles["u1"].present /\ ~FailsRule(q.row))
             => (profiles'["u1"].present /\ StoredProfile("u1")' = q.row)]_vars

\* C22: a save of a profile P that passes validation, followed by the fetch
\* of the owner's profile, returns P in all six fields.
C22_SaveThenFetchReturnsSaved ==
    [][\A q \in saves : SaveDone(q) => (StoredProfile("u1")' = form /\ form' = form)]_vars

----------------------------------------------------------------------------
(* SpecAdmin: the chat inside AdminDashboard (isAdmin true, session 1 of
   admin a1) next to the chat of end user u1 (session 2) *)

NextAdmin ==
    \/ Mount(1, "a1", TRUE)
    \/ Mount(2, "u1", FALSE)
    \/ \E s \in Sessions : GetUserDone(s)
    \/ \E s \in Sessions : ProfileDone(s)
    \/ \E s \in Sessions : LookupDone(s)
    \/ \E s \in Sessions : CreateDone(s)
    \/ \E s \in Sessions : ChannelJoined(s)
    \/ Unmount(1)
    \/ \E s \in Sessions : FetchRead(s)
    \/ \E s \in Sessions : FetchDone(s)
    \/ Focus(1)
    \/ KeyStroke(1, <<"H", "i">>)
    \/ \E f \in {g \in Files : g.size < MaxFileBytes} : FileSelect(1, f)
    \/ Submit(1)
    \/ \E q \in sends, ok \in BOOLEAN : UploadDone(q, ok)
    \/ \E q \in sends, ok \in BOOLEAN : InsertDone(q, ok)

SpecAdmin == InitChat /\ [][NextAdmin]_vars

\* C23: a session in admin mode never holds a conversation id: it sends no
\* history fetch, joins no channel, issues no typing upsert, and no send from
\* it leaves a row in chat_messages.
C23_AdminModeResolvesNothing ==
    /\ \A s \in Sessions :
          isAdmin[s] =>
             /\ conversationId[s] = 0
             /\ fetchSt[s] = "none"
             /\ ~subscribed[s]
             /\ lastIssued[s] = "none"
             /\ \A q \in upserts : q.s # s
    /\ \A i \in DOMAIN msgs : ~msgs[i].is_support

\* the admin session has typed a draft and a send of it, with an attachment
\* uploaded, has failed, while the end user's session has its conversation
C23_Witness ==
    /\ mounted[1] /\ isAdmin[1] /\ pc[1] = "ready"
    /\ newMessage[1] # <<>>
    /\ toasts[1] # <<>> /\ toasts[1][Len(toasts[1])] = "Failed to send message"
    /\ objects # <<>>
    /\ conversationId[2] # 0 /\ subscribed[2]

----------------------------------------------------------------------------
(* SpecClose: an open chat of end user u1 that is typed in and then closed *)

NextClose ==
    \/ \E s \in Sessions : Focus(s)
    \/ \E s \in Sessions : KeyStroke(s, <<"H", "i">>)
    \/ \E s \in Sessions, t \in 1..MaxUpserts : TimerFire(s, t)
    \/ \E q \in upserts : UpsertApply(q)
    \/ \E q \in upserts : UpsertDone(q)
    \/ \E a \in AdminUsers, c \in 1..MaxConvs, flag \in BOOLEAN : SupportTyping(a, c, flag)
    \/ \E s \in Sessions : OnTypingChange(s)
    \/ \E a \in AdminUsers, c \in 1..MaxConvs : SupportReply(a, c)
    \/ \E s \in Sessions : OnMessageInsert(s)
    \/ \E s \in Sessions : Unmount(s)

SpecClose == InitTyping /\ [][NextClose]_vars

\* C24: once a session is unmounted none of its callbacks runs: neither the
\* message handler nor the typing handler, and no inactivity timer of it
\* issues a typing upsert.
C24_NoCallbackAfterClose ==
    [][\A s \in Sessions :
          ~mounted[s] =>
             /\ ~OnMessageInsert(s)
             /\ ~OnTypingChange(s)
             /\ \A t \in 1..MaxUpserts : TimerFire(s, t) => upserts' = upserts]_vars

\* C25: validateProfile rejects every birth date for which 18 full years
\* have not passed today, also one later in the year than today.
C25_ClientRejectsUnder18 ==
    [][(SubmitProfile /\ form.date_of_birth # NoDate /\ Under18(form.date_of_birth))
          => "date_of_birth" \in formErrors']_vars

----------------------------------------------------------------------------
(* App: the signed-in user and the admin state *)

MaxChecks == 3      \* checkAdminStatus calls

\* "Users can view own profile": USING (auth.uid() = user_id)
ProfileSelectPolicy(uid, owner) == uid = owner

\* setUser(session?.user ?? null) of the getSession() callback and of the
\* onAuthStateChange listener, with u the user of the session reported;
\* if (session?.user) checkAdminStatus(session.user.id)
ReportSession(u) ==
    /\ user' = u
    /\ IF u # Null
       THEN /\ checks' = checks \cup {[id |-> nextCheck, uid |-> u]}
            /\ nextCheck' = nextCheck + 1
       ELSE UNCHANGED <<checks, nextCheck>>

\* AuthForm signs u in; the listener reports the new session
SignIn(u) ==
    /\ session = Null
    /\ nextCheck <= MaxChecks
    /\ session' = u
    /\ ReportSession(u)
    /\ UNCHANGED <<storeVars, loanVars, chatVars, typingVars, sendVars, formVars,
                   adminState, signingOut>>

\* the listener reports the session once more (the initial session after
\* getSession(), a refreshed token)
SessionEvent ==
    /\ session # Null
    /\ nextCheck <= MaxChecks
    /\ ReportSession(session)
    /\ UNCHANGED <<storeVars, loanVars, chatVars, typingVars, sendVars, formVars,
                   session, adminState, signingOut>>

\* the session ends without the button (expired, or signed out in another
\* tab); the listener reports null
SessionLost ==
    /\ session # Null
    /\ session' = Null
    /\ ReportSession(Null)
    /\ UNCHANGED <<storeVars, loanVars, chatVars, typingVars, sendVars, formVars,
                   adminState, signingOut>>

\* handleSignOut up to its await: signOut() ends the session and the listener
\* reports null.  The button is shown to a signed-in user.
SignOutClick ==
    /\ user # Null /\ ~signingOut
    /\ signingOut' = TRUE
    /\ session' = Null
    /\ ReportSession(Null)
    /\ UNCHANGED <<storeVars, loanVars, chatVars, typingVars, sendVars, formVars, adminState>>

\* handleSignOut resumes: setAdminState({ isAdmin: false, profile: null })
SignOutDone ==
    /\ signingOut
    /\ signingOut' = FALSE
    /\ adminState' = [isAdmin |-> FALSE, profile |-> Null]
    /\ UNCHANGED <<storeVars, loanVars, chatVars, typingVars, sendVars, formVars,
                   session, user, checks, nextCheck>>

\* checkAdminStatus resumes with the answer to the profile query it sent as
\* k.uid.  ok (the row exists and the query was answered):
\* setAdminState({ isAdmin: profile?.is_admin ?? false, profile }).
\* Otherwise: if (error) throw error, and the catch logs.
CheckDone(k, ok) ==
    /\ k \in checks
    /\ ok => profiles[k.uid].present /\ ProfileSelectPolicy(k.uid, k.uid)
    /\ checks' = checks \ {k}
    /\ adminState' = IF ok THEN [isAdmin |-> profiles[k.uid].is_admin, profile |-> k.uid]
                     ELSE adminState
    /\ UNCHANGED <<storeVars, loanVars, chatVars, typingVars, sendVars, formVars,
                   session, user, nextCheck, signingOut>>

----------------------------------------------------------------------------
(* SpecApp: sign-ins, sign-outs and admin-status checks of one App *)

NextApp ==
    \/ \E u \in Users : SignIn(u)
    \/ SessionEvent
    \/ SessionLost
    \/ SignOutClick
    \/ SignOutDone
    \/ \E k \in checks, ok \in BOOLEAN : CheckDone(k, ok)

SpecApp == InitChat /\ [][NextApp]_vars

\* C26: whenever a user is signed in and adminState.isAdmin is true, the
\* profile in adminState is that user's and the store flags the user admin.
C26_AdminStateIsOfSignedInUser ==
    (user # Null /\ adminState.isAdmin)
        => (adminState.profile = user /\ is_admin(user))

\* C27: the message list of a session never holds one message id twice.
C27_NoDuplicateInList ==
    \A s \in Sessions :
       \A i, j \in DOMAIN messages[s] :
          i # j => messages[s][i].id # messages[s][j].id

\* C28: an open by an end user who has an active conversation creates none:
\* when the lookup returns, answered or failed, for a user with one or more
\* active conversations, setupChat does not go on to the insert.
C28_NoCreateWithActiveConversation ==
    [][\A s \in Sessions :
          ((LookupDone(s) \/ LookupFail(s)) /\ ActiveOf(sessUser[s]) # {})
             => pc'[s] # "create"]_vars

\* C29: the submits of one unchanged draft leave at most one message row
\* carrying it: no two rows of chat_messages hold the same non-empty text
\* (under SpecSend a draft is typed once and changes only by being cleared).
C29_OneRowPerDraft ==
    \A i, j \in DOMAIN msgs :
       (i # j /\ msgs[i].message # <<>>) => msgs[i].message # msgs[j].message

----------------------------------------------------------------------------
(* SpecReceipt: one open chat of end user u1 with replies of support, the
   store's verdict on each mark-read update left open *)

NextReceipt ==
    \/ Mount(1, "u1", FALSE)
    \/ GetUserDone(1)
    \/ ProfileDone(1)
    \/ LookupDone(1)
    \/ CreateDone(1)
    \/ ChannelJoined(1)
    \/ \E a \in AdminUsers, c \in 1..MaxConvs : SupportReply(a, c)
    \/ OnMessageInsert(1)
    \/ FetchRead(1)
    \/ FetchDone(1)
    \/ \E r \in markReqs, allowed \in BOOLEAN : MarkReadProcess(r, allowed)

SpecReceipt == InitChat /\ [][NextReceipt]_vars

====
